---- MODULE Spec2Model ----
(***************************************************************************)
(* The sequencer hook of github-music (src/src/hooks/useSequencer.js) as a *)
(* state machine: the React state and refs of useSequencer, the Tone.js    *)
(* transport, the Tone.Sequence objects scheduled on it, the Tone.Draw     *)
(* queue and the play() calls suspended at `await Tone.start()`.           *)
(*                                                                         *)
(* Indices are the source's 0-based indices; TLA+ sequences are 1-based,   *)
(* so data.weeks[i] of the source is data.weeks[i + 1] here.               *)
(***************************************************************************)
EXTENDS Integers, Sequences, FiniteSets, TLC

(***************************************************************************)
(* Bounds of the model.                                                    *)
(***************************************************************************)
\* number of weeks of the grids handed to play() (the data layer yields 52)
NumWeeks == 5
\* play() calls over one run; each call gets the next session id
MaxSessions == 2
\* transport position (in eighth notes) up to which column visits are explored
MaxTicks == 6
\* visual callbacks waiting in the Tone.Draw queue at the same time
MaxDraw == 1
\* the highest count of one cell of the grids the tempo is computed for
MaxCount == 1600

(***************************************************************************)
(* Constants of the program.                                               *)
(***************************************************************************)
\* weeks of a grid of the data layer
WeeksPerYear == 52
\* the highest level of a cell
MaxLevel == 4

VARIABLES
    \* React state of useSequencer (useSequencer.js:5-11)
    isPlaying, activeCol, activeNotes, scaleType, currentPattern, bpm, autoScale,
    \* refs (useSequencer.js:13-15); sequenceRef holds a session id, 0 is null
    scaleTypeRef, autoScaleRef, sequenceRef,
    \* Tone.Transport: state, position in eighth notes, tempo
    transportState, pos, transportBpm,
    \* Tone.Sequence objects whose events are scheduled on the transport
    live,
    \* Tone.Draw queue: callbacks scheduled by column visits, in time order
    drawQueue,
    \* play() calls suspended at `await Tone.start()`, in call order
    pending,
    \* the data argument of each play() call, by session id
    callData,
    \* the next session id
    nextId,
    \* observation of the run: the last step taken, the sound triggers of the
    \* last column visit since the last stop(), and, as of the last stop(),
    \* the first session not yet resumed and the first session not yet called
    lastOp, out, stopMark, callMark,
    \* the last application of a pure function on its own: name, arguments,
    \* result
    probe,
    \* React state of the component (GitSequencer.jsx:31-32, 67): the id of
    \* the grid it holds ("null" for none), and the flags of a load in progress
    dataState, isLoading, isAnimating,
    \* loadData calls in progress: the grid their fetch yields and their phase
    loads,
    \* the grid objects in memory, by id: the cells written since the data
    \* layer built the object, as a function from <<week, day>> to the cell
    grids,
    \* the recording of the component (GitSequencer.jsx:36-37): the React
    \* state isRecording, the state of the recorder in mediaRecorderRef
    \* ("null" for none), and the handleExport calls suspended at
    \* `await Tone.start()` with the isPlaying and data of their render
    isRecording, mediaRecorder, exports

react == <<isPlaying, activeCol, activeNotes, scaleType, currentPattern, bpm, autoScale>>
refs == <<scaleTypeRef, autoScaleRef, sequenceRef>>
tone == <<transportState, pos, transportBpm, live, drawQueue>>
calls == <<pending, callData, nextId>>
hist == <<lastOp, out, stopMark, callMark, probe>>
comp == <<dataState, isLoading, isAnimating, loads>>
rec == <<isRecording, mediaRecorder, exports>>
env == <<comp, grids, rec>>
vars == <<react, refs, tone, calls, hist, env>>

(***************************************************************************)
(* Data: the grids handed to play().                                       *)
(***************************************************************************)
ScaleNames == {"pentatonic", "lydian", "dorian", "phrygianDom"}

Min(a, b) == IF a < b THEN a ELSE b
Max(a, b) == IF a > b THEN a ELSE b

\* level of day d of week w in the mixed grid: week 4 is empty, week 2 has
\* two active cells, every other week one; the first block sums to 13
MixedLevel(w, d) ==
    IF w = 4 THEN 0
    ELSE IF d = w % 7 THEN (w % 4) + 1
    ELSE IF w = 2 /\ d = 5 THEN 3
    ELSE 0

\* the grid shape of the data layer: weeks of 7 days with level and count
MixedGrid ==
    [weeks |-> [w \in 1..NumWeeks |->
        [days |-> [d \in 1..7 |->
            [level |-> MixedLevel(w - 1, d - 1),
             count |-> 10 * MixedLevel(w - 1, d - 1)]]]]]

\* a grid of the data layer's size whose cells all have level 0 and count 0
ZeroGrid ==
    [weeks |-> [w \in 1..WeeksPerYear |->
        [days |-> [d \in 1..7 |-> [level |-> 0, count |-> 0]]]]]

\* a grid of the data layer's size with one active cell: week 10, day 3,
\* level 4, count 4
SingleCellGrid ==
    [weeks |-> [w \in 1..WeeksPerYear |->
        [days |-> [d \in 1..7 |->
            IF w - 1 = 10 /\ d - 1 = 3
            THEN [level |-> 4, count |-> 4]
            ELSE [level |-> 0, count |-> 0]]]]]

ShortGridIds == {"mixed"}
YearGridIds == {"zero", "single"}
MoodGridIds == {"moods"}
GridIds == ShortGridIds \cup YearGridIds \cup {"sparse"} \cup MoodGridIds
\* "null" is an absent grid, "noWeeks" a present object without a weeks list
DataIds == ShortGridIds \cup {"null", "noWeeks"}

\* a 5-week grid with one active cell
SparseGrid ==
    [weeks |-> [w \in 1..NumWeeks |->
        [days |-> [d \in 1..7 |->
            IF w = 2 /\ d = 1
            THEN [level |-> 1, count |-> 1]
            ELSE [level |-> 0, count |-> 0]]]]]

\* the number of weeks of the grid of three moods
MoodWeeks == 9

\* level of day d of week w in the grid of three moods: the first block sums
\* to 11 (lydian) and its week 2 is empty, the second block to 36 (dorian),
\* the weeks after it have one cell of level 2 (pentatonic)
MoodLevel(w, d) ==
    IF w \div 4 = 0
    THEN IF w = 0 /\ d <= 1 THEN 3
         ELSE IF w = 1 /\ d = 2 THEN 4
         ELSE IF w = 3 /\ d = 6 THEN 1
         ELSE 0
    ELSE IF w \div 4 = 1
    THEN IF d <= 2 THEN 3 ELSE 0
    ELSE IF d = 3 THEN 2 ELSE 0

MoodGrid ==
    [weeks |-> [w \in 1..MoodWeeks |->
        [days |-> [d \in 1..7 |->
            [level |-> MoodLevel(w - 1, d - 1),
             count |-> 10 * MoodLevel(w - 1, d - 1)]]]]]

\* the grids the component can hold
ComponentGridIds == {"mixed", "sparse"}

\* the grid object the data layer yields under an id
LoadedGrid(id) ==
    IF id = "zero" THEN ZeroGrid
    ELSE IF id = "single" THEN SingleCellGrid
    ELSE IF id = "sparse" THEN SparseGrid
    ELSE IF id = "moods" THEN MoodGrid
    ELSE MixedGrid

\* the content of a grid object: what the data layer built, overlaid with the
\* cells written since
Grid(id) ==
    LET loaded == LoadedGrid(id)
        written == grids[id]
    IN IF DOMAIN written = {} THEN loaded
       ELSE [weeks |-> [w \in 1..Len(loaded.weeks) |->
                [days |-> [d \in 1..7 |->
                    IF <<w, d>> \in DOMAIN written
                    THEN written[<<w, d>>]
                    ELSE loaded.weeks[w].days[d]]]]]

\* the grids and weeks on which the pure functions are applied on their own:
\* three cells of levels a, b and c, repeated every three weeks (day 2 and
\* day 4 of one week, day 0 of the next, then an empty week)
ProbeLevel(a, b, c, w, d) ==
    IF w % 3 = 0 /\ d = 2 THEN b
    ELSE IF w % 3 = 0 /\ d = 4 THEN a
    ELSE IF w % 3 = 1 /\ d = 0 THEN c
    ELSE 0

ProbeGrid(a, b, c) ==
    [weeks |-> [w \in 1..NumWeeks |->
        [days |-> [d \in 1..7 |->
            [level |-> ProbeLevel(a, b, c, w - 1, d - 1),
             count |-> ProbeLevel(a, b, c, w - 1, d - 1)]]]]]

\* a grid with the counts n and m in two cells of different weeks
TempoGrid(n, m) ==
    [weeks |-> [w \in 1..NumWeeks |->
        [days |-> [d \in 1..7 |->
            [level |-> IF (w = 1 /\ d = 1 /\ n > 0) \/ (w = 2 /\ d = 4 /\ m > 0)
                       THEN 1 ELSE 0,
             count |-> IF w = 1 /\ d = 1 THEN n
                       ELSE IF w = 2 /\ d = 4 THEN m
                       ELSE 0]]]]]

\* a week whose active days are those of S, with levels 1..MaxLevel by day
ProbeWeek(S) ==
    [days |-> [d \in 1..7 |->
        [level |-> IF d - 1 \in S THEN ((d - 1) % MaxLevel) + 1 ELSE 0,
         count |-> IF d - 1 \in S THEN ((d - 1) % MaxLevel) + 1 ELSE 0]]]

(***************************************************************************)
(* Pure functions of the sequencer.                                        *)
(***************************************************************************)
RECURSIVE SumSeq(_)
SumSeq(s) == IF s = <<>> THEN 0 ELSE Head(s) + SumSeq(Tail(s))

\* the mood selector with inclusive thresholds
getScaleForActivityInclusive(activity) ==
    IF activity >= 50 THEN [scale |-> "phrygianDom", pattern |-> "Intense (Extreme)"]
    ELSE IF activity >= 30 THEN [scale |-> "dorian", pattern |-> "Focus (High)"]
    ELSE IF activity >= 10 THEN [scale |-> "lydian", pattern |-> "Dreamy (Med)"]
    ELSE [scale |-> "pentatonic", pattern |-> "Zen (Low)"]

\* useSequencer.js:20-25
getScaleForActivity(activity) ==
    IF activity > 50 THEN [scale |-> "phrygianDom", pattern |-> "Intense (Extreme)"]
    ELSE IF activity > 30 THEN [scale |-> "dorian", pattern |-> "Focus (High)"]
    ELSE IF activity > 10 THEN [scale |-> "lydian", pattern |-> "Dreamy (Med)"]
    ELSE [scale |-> "pentatonic", pattern |-> "Zen (Low)"]

\* the block activity as the sum of the counts
getBlockActivityOfCounts(data, colIndex) ==
    LET blockStart == (colIndex \div 4) * 4
        weekActivity(i) ==
            IF blockStart + i < Len(data.weeks)
            THEN SumSeq([d \in 1..Len(data.weeks[blockStart + i + 1].days) |->
                            data.weeks[blockStart + i + 1].days[d].count])
            ELSE 0
    IN weekActivity(0) + weekActivity(1) + weekActivity(2) + weekActivity(3)

\* useSequencer.js:28-37
getBlockActivity(data, colIndex) ==
    LET blockStart == (colIndex \div 4) * 4
        weekActivity(i) ==
            IF blockStart + i < Len(data.weeks)
            THEN SumSeq([d \in 1..Len(data.weeks[blockStart + i + 1].days) |->
                            data.weeks[blockStart + i + 1].days[d].level])
            ELSE 0
    IN weekActivity(0) + weekActivity(1) + weekActivity(2) + weekActivity(3)

\* the scan of one week in which a later day of equal level replaces the root
RECURSIVE scanDaysLastWins(_, _, _)
scanDaysLastWins(days, idx, acc) ==
    IF idx >= Len(days) THEN acc
    ELSE LET d == days[idx + 1]
         IN scanDaysLastWins(days, idx + 1,
                IF d.level > 2 /\ d.level >= acc.maxLevel
                THEN [maxLevel |-> d.level, foundRootIndex |-> idx]
                ELSE acc)

\* the scan of one week without the threshold level > 2
RECURSIVE scanDaysAnyLevel(_, _, _)
scanDaysAnyLevel(days, idx, acc) ==
    IF idx >= Len(days) THEN acc
    ELSE LET d == days[idx + 1]
         IN scanDaysAnyLevel(days, idx + 1,
                IF d.level > acc.maxLevel
                THEN [maxLevel |-> d.level, foundRootIndex |-> idx]
                ELSE acc)

\* the forEach of useSequencer.js:47-52 over one week, from day index idx on
RECURSIVE scanDays(_, _, _)
scanDays(days, idx, acc) ==
    IF idx >= Len(days) THEN acc
    ELSE LET d == days[idx + 1]
         IN scanDays(days, idx + 1,
                IF d.level > 2 /\ d.level > acc.maxLevel
                THEN [maxLevel |-> d.level, foundRootIndex |-> idx]
                ELSE acc)

\* the for loop of useSequencer.js:44-54, from i on
RECURSIVE scanWeeks(_, _, _, _)
scanWeeks(data, colIndex, i, acc) ==
    IF i >= 4 THEN acc
    ELSE scanWeeks(data, colIndex, i + 1,
            IF colIndex + i < Len(data.weeks)
            THEN scanDays(data.weeks[colIndex + i + 1].days, 0, acc)
            ELSE acc)

\* useSequencer.js:40-56
findChordRoot(data, colIndex) ==
    scanWeeks(data, colIndex, 0, [maxLevel |-> -1, foundRootIndex |-> 0]).foundRootIndex

\* the tempo with the cap of 180 of the earlier component
calculatedBpmCap180(data) ==
    LET totalContribs ==
            SumSeq([w \in 1..Len(data.weeks) |->
                SumSeq([d \in 1..Len(data.weeks[w].days) |-> data.weeks[w].days[d].count])])
    IN Min(180, Max(80, 80 + (totalContribs \div 50)))

\* useSequencer.js:143-145
calculatedBpm(data) ==
    LET totalContribs ==
            SumSeq([w \in 1..Len(data.weeks) |->
                SumSeq([d \in 1..Len(data.weeks[w].days) |-> data.weeks[w].days[d].count])])
    IN Min(110, Max(80, 80 + (totalContribs \div 50)))

\* useSequencer.js:65: the events of the sequence
cols(data) == [i \in 1..Len(data.weeks) |-> i - 1]

\* the drum voice with the busy hi-hat on every beat
drumVoiceBusyHatEveryBeat(beat, blockActivity) ==
    LET isBusy == blockActivity > 15
        isMedium == blockActivity > 5
    IN IF isBusy THEN "hihat0.3"
       ELSE IF beat = 0 THEN "kick"
       ELSE IF beat = 2 /\ isMedium THEN "snare"
       ELSE IF isMedium /\ (beat = 1 \/ beat = 3) THEN "hihat0.2"
       ELSE "none"

\* the drum voice with the busy hi-hat tested before the snare
drumVoiceBusyFirst(beat, blockActivity) ==
    LET isBusy == blockActivity > 15
        isMedium == blockActivity > 5
    IN IF beat = 0 THEN "kick"
       ELSE IF isBusy THEN "hihat0.3"
       ELSE IF beat = 2 /\ isMedium THEN "snare"
       ELSE IF isMedium /\ (beat = 1 \/ beat = 3) THEN "hihat0.2"
       ELSE "none"

\* the drum voice with a hi-hat on beats 1 and 3 whatever the activity
drumVoiceHatAlways(beat, blockActivity) ==
    LET isBusy == blockActivity > 15
        isMedium == blockActivity > 5
    IN IF beat = 0 THEN "kick"
       ELSE IF beat = 2 /\ isMedium THEN "snare"
       ELSE IF isBusy THEN "hihat0.3"
       ELSE IF beat = 1 \/ beat = 3 THEN "hihat0.2"
       ELSE "none"

\* useSequencer.js:90-102: the drum voice of one column visit
drumVoice(beat, blockActivity) ==
    LET isBusy == blockActivity > 15
        isMedium == blockActivity > 5
    IN IF beat = 0 THEN "kick"
       ELSE IF beat = 2 /\ isMedium THEN "snare"
       ELSE IF isBusy THEN "hihat0.3"
       ELSE IF isMedium /\ (beat = 1 \/ beat = 3) THEN "hihat0.2"
       ELSE "none"

\* the days of a week without the filter level > 0
activeDaysAll(week) == 0..(Len(week.days) - 1)

\* useSequencer.js:105-107: indices of the days of a week with level > 0
activeDays(week) == {i \in 0..(Len(week.days) - 1) : week.days[i + 1].level > 0}

\* the selector that plays every active day of the week
selectedNotesAll(week) == {activeDays(week)}

\* useSequencer.js:109-129: the sets of day indices the three branches of the
\* random roll can select (a shuffle by a random comparator yields any order)
selectedNotes(week) ==
    LET A == activeDays(week)
        k == Cardinality(A)
        ofSize(n) == {S \in SUBSET A : Cardinality(S) = Min(k, n)}
    IN IF k = 0 THEN {{}}
       ELSE ofSize(1) \cup (ofSize(2) \cup ofSize(3)) \cup ofSize(4)

\* GitSequencer.jsx:886: the level sum above which a week is sampled
DensityThreshold == 10

\* GitSequencer.jsx:882-883: the sum of the levels of the days of a week
weekDensity(week) == SumSeq([d \in 1..Len(week.days) |-> week.days[d].level])

\* the density selector that samples a week from the threshold on
selectedNotesByDensityFrom(week) ==
    LET A == activeDays(week)
        k == Cardinality(A)
    IN IF weekDensity(week) >= DensityThreshold
       THEN {S \in SUBSET A : Cardinality(S) \in {Min(k, n) : n \in 1..3}}
       ELSE {A}

\* GitSequencer.jsx:880-937: the sets of day indices the melody logic of the
\* single-file component can sound: above the threshold the first noteCount
\* (1..3) entries of a Fisher-Yates shuffle of the active days, otherwise
\* every active day
selectedNotesByDensity(week) ==
    LET A == activeDays(week)
        k == Cardinality(A)
    IN IF weekDensity(week) > DensityThreshold
       THEN {S \in SUBSET A : Cardinality(S) \in {Min(k, n) : n \in 1..3}}
       ELSE {A}

\* useAudioEngine.js:4-9
SCALES ==
    [pentatonic |-> <<"C4", "D4", "E4", "G4", "A4", "C5", "D5">>,
     lydian |-> <<"C4", "D4", "E4", "F#4", "G4", "A4", "B4">>,
     dorian |-> <<"C4", "D4", "Eb4", "F4", "G4", "A4", "Bb4">>,
     phrygianDom |-> <<"C4", "Db4", "E4", "F4", "G4", "Ab4", "Bb4">>]

\* useAudioEngine.js:18, in tenths
VELOCITIES == <<0, 5, 6, 7, 8>>

\* the note trigger with the velocity table read one entry too low
playNoteVelocityBelow(type, dayIndex, level) ==
    LET scale == IF type \in DOMAIN SCALES THEN SCALES[type] ELSE SCALES["pentatonic"]
        noteIndex == (dayIndex + level) % Len(scale)
        vel == IF level \in DOMAIN VELOCITIES /\ VELOCITIES[level] # 0
               THEN VELOCITIES[level]
               ELSE 5
    IN [day |-> dayIndex, noteIndex |-> noteIndex, note |-> scale[noteIndex + 1],
        vel |-> vel]

\* the note trigger with the pitch taken from the day index alone
playNoteByDay(type, dayIndex, level) ==
    LET scale == IF type \in DOMAIN SCALES THEN SCALES[type] ELSE SCALES["pentatonic"]
        noteIndex == dayIndex % Len(scale)
        vel == IF level + 1 \in DOMAIN VELOCITIES /\ VELOCITIES[level + 1] # 0
               THEN VELOCITIES[level + 1]
               ELSE 5
    IN [day |-> dayIndex, noteIndex |-> noteIndex, note |-> scale[noteIndex + 1],
        vel |-> vel]

\* useAudioEngine.js:171-177: the trigger of one melody note; velocity in
\* tenths, 5 where the table has no entry or a zero one
playNote(type, dayIndex, level) ==
    LET scale == IF type \in DOMAIN SCALES THEN SCALES[type] ELSE SCALES["pentatonic"]
        noteIndex == (dayIndex + level) % Len(scale)
        vel == IF level + 1 \in DOMAIN VELOCITIES /\ VELOCITIES[level + 1] # 0
               THEN VELOCITIES[level + 1]
               ELSE 5
    IN [day |-> dayIndex, noteIndex |-> noteIndex, note |-> scale[noteIndex + 1],
        vel |-> vel]

(***************************************************************************)
(* Initial state: the hook after its first render, Tone.js untouched.      *)
(***************************************************************************)
NoChord == [on |-> FALSE, scale |-> "", root |-> -1]
NoOut == [session |-> 0, col |-> -1, chord |-> NoChord, drum |-> "none",
          notes |-> {}, noteScale |-> "", played |-> {}]
Op(op, arg, sess, res) == [op |-> op, arg |-> arg, sess |-> sess, res |-> res]
NoProbe == [fn |-> "none", input |-> <<>>, output |-> <<>>]

InitWith(ids) ==
    /\ isPlaying = FALSE
    /\ activeCol = -1
    /\ activeNotes = {}
    /\ scaleType = "pentatonic"
    /\ currentPattern = "Zen"
    /\ bpm = 80
    /\ autoScale = TRUE
    /\ scaleTypeRef = "pentatonic"
    /\ autoScaleRef = TRUE
    /\ sequenceRef = 0
    /\ transportState = "stopped"
    /\ pos = 0
    /\ transportBpm = 120
    /\ live = {}
    /\ drawQueue = <<>>
    /\ pending = <<>>
    /\ callData = [s \in 1..MaxSessions |-> "null"]
    /\ nextId = 1
    /\ lastOp = Op("init", "", 0, "")
    /\ out = NoOut
    /\ stopMark = 1
    /\ callMark = 1
    /\ probe = NoProbe
    /\ dataState = "null"
    /\ isLoading = FALSE
    /\ isAnimating = FALSE
    /\ loads = <<>>
    /\ grids = [id \in ids |-> <<>>]
    /\ isRecording = FALSE
    /\ mediaRecorder = "null"
    /\ exports = <<>>

Init == InitWith(ShortGridIds)

InitYear == InitWith(YearGridIds)

InitComponent == InitWith(ComponentGridIds)

InitMoods == InitWith(MoodGridIds)

(***************************************************************************)
(* play(data), useSequencer.js:59-151.  The call runs to the await of line *)
(* 62 and is suspended there; the rest runs when Tone.start() resolves.    *)
(***************************************************************************)
\* useSequencer.js:62: the call is suspended; it is given the next session id
suspend(d) ==
    /\ pending' = Append(pending, nextId)
    /\ callData' = [callData EXCEPT ![nextId] = d]
    /\ nextId' = nextId + 1

\* play without the guard of line 60
playNoGuard(d) == suspend(d)

\* useSequencer.js:59-62
play(d) ==
    IF d = "null"
    THEN UNCHANGED <<pending, callData, nextId>>
    ELSE suspend(d)

\* useSequencer.js:65-150 for a grid: the old sequence is disposed, the new
\* one is created and started, the tempo is set, the transport is started
startSession(s, d) ==
    /\ live' = (live \ {sequenceRef}) \cup {s}
    /\ sequenceRef' = s
    /\ transportBpm' = calculatedBpm(Grid(d))
    /\ bpm' = calculatedBpm(Grid(d))
    /\ transportState' = "started"
    /\ isPlaying' = TRUE
    /\ UNCHANGED <<activeCol, activeNotes, scaleType, currentPattern, autoScale,
                   scaleTypeRef, autoScaleRef, pos, drawQueue>>

\* useSequencer.js:65 with data.weeks undefined: data.weeks.map throws a
\* TypeError, the promise of play() is rejected and nothing else has run
throwTypeError ==
    UNCHANGED <<react, refs, tone>>

\* useSequencer.js:63-150: the continuation of the oldest suspended call
resume ==
    LET s == Head(pending)
        d == callData[s]
    IN /\ pending' = Tail(pending)
       /\ UNCHANGED <<callData, nextId>>
       /\ IF d \in GridIds
          THEN /\ startSession(s, d)
               /\ lastOp' = Op("resume", "", s, "started")
          ELSE /\ throwTypeError
               /\ lastOp' = Op("resume", "", s, "threw")
       /\ UNCHANGED <<out, stopMark, callMark, probe>>

(***************************************************************************)
(* stop(), useSequencer.js:154-169.                                        *)
(***************************************************************************)
\* stop that puts the scale mode back to auto
stopResetsScaleMode ==
    /\ live' = {}
    /\ sequenceRef' = 0
    /\ transportState' = "stopped"
    /\ pos' = 0
    /\ isPlaying' = FALSE
    /\ activeCol' = -1
    /\ activeNotes' = {}
    /\ autoScale' = TRUE
    /\ autoScaleRef' = TRUE
    /\ UNCHANGED <<scaleType, currentPattern, bpm, scaleTypeRef,
                   transportBpm, drawQueue>>

\* stop that drops the reference and stops the transport, without disposing
\* the sequence and without Transport.cancel()
stopNoDispose ==
    /\ live' = live
    /\ sequenceRef' = 0
    /\ transportState' = "stopped"
    /\ pos' = 0
    /\ isPlaying' = FALSE
    /\ activeCol' = -1
    /\ activeNotes' = {}
    /\ UNCHANGED <<scaleType, currentPattern, bpm, autoScale, scaleTypeRef,
                   autoScaleRef, transportBpm, drawQueue>>

stop ==
    \* 156-160: the sequence is stopped and disposed; 162-164: the transport
    \* is stopped, every event scheduled on it is cancelled, position reset
    /\ live' = {}
    /\ sequenceRef' = 0
    /\ transportState' = "stopped"
    /\ pos' = 0
    \* 166-168
    /\ isPlaying' = FALSE
    /\ activeCol' = -1
    /\ activeNotes' = {}
    /\ UNCHANGED <<scaleType, currentPattern, bpm, autoScale, scaleTypeRef,
                   autoScaleRef, transportBpm, drawQueue>>

\* what a stop() means for the sessions: the calls resumed before it are the
\* sessions below stopMark, the calls made before it those below callMark
stopObserved ==
    /\ stopMark' = IF pending # <<>> THEN Head(pending) ELSE nextId
    /\ callMark' = nextId
    /\ out' = NoOut
    /\ UNCHANGED probe

(***************************************************************************)
(* changeScale(value), useSequencer.js:181-191.                            *)
(***************************************************************************)
\* changeScale whose auto branch falls back to the default scale at once
changeScaleAutoResets(value) ==
    IF value = "auto"
    THEN /\ autoScale' = TRUE
         /\ autoScaleRef' = TRUE
         /\ scaleType' = "pentatonic"
         /\ scaleTypeRef' = "pentatonic"
    ELSE /\ autoScale' = FALSE
         /\ autoScaleRef' = FALSE
         /\ scaleType' = value
         /\ scaleTypeRef' = value

changeScale(value) ==
    IF value = "auto"
    THEN /\ autoScale' = TRUE
         /\ autoScaleRef' = TRUE
         /\ UNCHANGED <<scaleType, scaleTypeRef>>
    ELSE /\ autoScale' = FALSE
         /\ autoScaleRef' = FALSE
         /\ scaleType' = value
         /\ scaleTypeRef' = value

(***************************************************************************)
(* The callback of the sequence, useSequencer.js:69-139, for session s at  *)
(* the transport position pos.  A Tone.Sequence loops: its event i fires   *)
(* at every position congruent to i modulo the number of events.           *)
(***************************************************************************)
colAt(data, position) == cols(data)[(position % Len(cols(data))) + 1]

\* the mood is recomputed at every beat, whatever the scale mode
recomputeEveryBeat(beat) == autoScaleRef

\* the mood is recomputed at every block boundary, whatever the scale mode
recomputeIgnoresPin(beat) == beat = 0

\* useSequencer.js:83: whether this visit recomputes the mood
recomputes(beat) == autoScaleRef /\ beat = 0

\* the chord logic placed after the scale logic: the chord sounds in the scale
\* just recomputed
chordScaleAfterMood(beat, mood) ==
    IF recomputes(beat) THEN mood.scale ELSE scaleTypeRef

\* useSequencer.js:76-80: the chord logic runs before the scale logic of lines
\* 82-88, so playChord reads the scale the visit was entered with
chordScale(beat, mood) == scaleTypeRef

callback(s, colIndex, sel) ==
    LET data == Grid(callData[s])
        week == data.weeks[colIndex + 1]
        beat == colIndex % 4
        blockActivity == getBlockActivity(data, colIndex)
        mood == getScaleForActivity(blockActivity)
        chord == IF colIndex % 4 = 0
                 THEN [on |-> TRUE, scale |-> chordScale(beat, mood),
                       root |-> findChordRoot(data, colIndex)]
                 ELSE NoChord
        recompute == recomputes(beat)
    IN /\ IF recompute
          THEN /\ scaleType' = mood.scale
               /\ scaleTypeRef' = mood.scale
               /\ currentPattern' = mood.pattern
          ELSE UNCHANGED <<scaleType, scaleTypeRef, currentPattern>>
       /\ out' = [session |-> s, col |-> colIndex, chord |-> chord,
                  drum |-> drumVoice(beat, blockActivity), notes |-> sel,
                  noteScale |-> IF sel = {} THEN "" ELSE scaleTypeRef',
                  played |-> {playNote(scaleTypeRef', i, week.days[i + 1].level) :
                                i \in sel}]
       /\ IF activeDays(week) # {}
          THEN drawQueue' = Append(drawQueue,
                    [col |-> colIndex, notes |-> sel, session |-> s])
          ELSE UNCHANGED drawQueue

\* the callback handed to Tone.Draw, useSequencer.js:135-138
draw(e) ==
    /\ activeCol' = e.col
    /\ activeNotes' = e.notes

(***************************************************************************)
(* Actions.                                                                *)
(***************************************************************************)
CanCall(d) == d = "null" \/ nextId <= MaxSessions

Play(d) ==
    /\ UNCHANGED env
    /\ CanCall(d)
    /\ play(d)
    /\ lastOp' = Op("play", d, 0, "")
    /\ UNCHANGED <<react, refs, tone, out, stopMark, callMark, probe>>

PlayResume ==
    /\ UNCHANGED env
    /\ pending # <<>>
    /\ resume

Stop ==
    /\ UNCHANGED env
    /\ stop
    /\ stopObserved
    /\ lastOp' = Op("stop", "", 0, "")
    /\ UNCHANGED calls

\* toggle(data), useSequencer.js:172-178
toggle(d) ==
    IF isPlaying
    THEN /\ stop
         /\ stopObserved
         /\ UNCHANGED calls
    ELSE /\ play(d)
         /\ UNCHANGED <<react, refs, tone, out, stopMark, callMark, probe>>

Toggle(d) ==
    /\ UNCHANGED env
    /\ isPlaying \/ CanCall(d)
    /\ toggle(d)
    /\ lastOp' = Op("toggle", "", 0, "")

\* a change of scale that also puts the tempo back to its default
ChangeScaleResetsTempo(value) ==
    /\ UNCHANGED env
    /\ changeScale(value)
    /\ lastOp' = Op("changeScale", value, 0, "")
    /\ bpm' = 80
    /\ transportBpm' = 80
    /\ UNCHANGED <<isPlaying, activeCol, activeNotes, currentPattern, sequenceRef,
                   transportState, pos, live, drawQueue, calls, out, stopMark,
                   callMark, probe>>

ChangeScale(value) ==
    /\ UNCHANGED env
    /\ changeScale(value)
    /\ lastOp' = Op("changeScale", value, 0, "")
    /\ UNCHANGED <<isPlaying, activeCol, activeNotes, currentPattern, bpm,
                   sequenceRef, tone, calls, out, stopMark, callMark, probe>>

\* a firing of the callback that ends the session at the last column
visitColumnEndsAtLast ==
    /\ transportState = "started"
    /\ \E s \in live :
        LET data == Grid(callData[s])
            colIndex == colAt(data, pos)
            last == colIndex = Len(data.weeks) - 1
        IN /\ IF colIndex >= Len(data.weeks)
              THEN /\ UNCHANGED <<scaleType, scaleTypeRef, currentPattern, drawQueue, out>>
                   /\ lastOp' = Op("tick", "", s, "")
              ELSE /\ activeDays(data.weeks[colIndex + 1]) = {} \/ Len(drawQueue) < MaxDraw
                   /\ \E sel \in selectedNotes(data.weeks[colIndex + 1]) :
                           callback(s, colIndex, sel)
                   /\ lastOp' = Op("visit", "", s, "")
           /\ isPlaying' = IF last THEN FALSE ELSE isPlaying
           /\ activeCol' = IF last THEN -1 ELSE activeCol
    /\ pos' = pos + 1
    /\ UNCHANGED <<activeNotes, bpm, autoScale, autoScaleRef,
                   sequenceRef, transportState, transportBpm, live, calls,
                   stopMark, callMark, probe>>

\* useSequencer.js:69-140: what a firing of the sequence callback does to the
\* state of the hook and of Tone
visitColumn ==
    /\ transportState = "started"
    /\ \E s \in live :
        LET data == Grid(callData[s])
            colIndex == colAt(data, pos)
        IN \* useSequencer.js:70-71
           IF colIndex >= Len(data.weeks)
           THEN /\ UNCHANGED <<scaleType, scaleTypeRef, currentPattern, drawQueue, out>>
                /\ lastOp' = Op("tick", "", s, "")
           ELSE /\ activeDays(data.weeks[colIndex + 1]) = {} \/ Len(drawQueue) < MaxDraw
                /\ \E sel \in selectedNotes(data.weeks[colIndex + 1]) :
                        callback(s, colIndex, sel)
                /\ lastOp' = Op("visit", "", s, "")
    /\ pos' = pos + 1
    /\ UNCHANGED <<isPlaying, activeCol, activeNotes, bpm, autoScale, autoScaleRef,
                   sequenceRef, transportState, transportBpm, live, calls,
                   stopMark, callMark, probe>>

\* a visit that marks the first cell of the session's grid as played, by
\* writing level 4 and count 0 into it
advanceMarksCell ==
    /\ visitColumn
    /\ grids' = [grids EXCEPT ![callData[sequenceRef]] =
                    (<<1, 1>> :> [level |-> MaxLevel, count |-> 0]) @@ @]
    /\ UNCHANGED <<comp, rec>>

\* the transport reaches the next eighth note: the sequence fires its
\* callback, which reads data.weeks and writes no field of it
advance ==
    /\ visitColumn
    /\ UNCHANGED env

\* a column visit within the explored positions
Visit ==
    /\ pos < MaxTicks
    /\ advance

\* Tone.Draw runs the oldest scheduled callback on an animation frame
DrawFire ==
    /\ UNCHANGED env
    /\ drawQueue # <<>>
    /\ draw(Head(drawQueue))
    /\ drawQueue' = Tail(drawQueue)
    /\ lastOp' = Op("draw", "", Head(drawQueue).session, "")
    /\ UNCHANGED <<isPlaying, scaleType, currentPattern, bpm, autoScale, refs,
                   transportState, pos, transportBpm, live, calls,
                   out, stopMark, callMark, probe>>

\* Tone.Draw drops a callback whose time lies too far back when the frame comes
DrawExpire ==
    /\ UNCHANGED env
    /\ drawQueue # <<>>
    /\ drawQueue' = Tail(drawQueue)
    /\ lastOp' = Op("expire", "", Head(drawQueue).session, "")
    /\ UNCHANGED <<react, refs, transportState, pos, transportBpm, live, calls,
                   out, stopMark, callMark, probe>>

\* the component hands its data state to toggle: a loaded grid or null
\* (GitSequencer.jsx:31, 137-139)
ToggleData == ShortGridIds \cup {"null"}

\* the scale values offered to changeScale
ScaleValues == {"auto", "dorian"}

Next ==
    \/ \E d \in DataIds : Play(d)
    \/ PlayResume
    \/ Stop
    \/ \E d \in ToggleData : Toggle(d)
    \/ \E v \in ScaleValues : ChangeScale(v)
    \/ Visit
    \/ DrawFire
    \/ DrawExpire

Spec == Init /\ [][Next]_vars

(***************************************************************************)
(* Sessions on the grids of the data layer's size: a whole pass over the   *)
(* 52 columns and the first column of the next pass.                       *)
(***************************************************************************)
YearTicks == WeeksPerYear + 1

VisitYear ==
    /\ pos < YearTicks
    /\ advance

NextYear ==
    \/ \E d \in YearGridIds : Play(d)
    \/ PlayResume
    \/ Stop
    \/ VisitYear
    \/ DrawFire
    \/ DrawExpire

SpecYear == InitYear /\ [][NextYear]_vars

(***************************************************************************)
(* Sessions on the grid of three moods with the automatic mood left on:    *)
(* no call of changeScale.  One pass over the grid and the first column    *)
(* of the next.                                                            *)
(***************************************************************************)
MoodTicks == MoodWeeks + 1

VisitMoods ==
    /\ pos < MoodTicks
    /\ advance

NextMoods ==
    \/ \E d \in MoodGridIds : Play(d)
    \/ PlayResume
    \/ Stop
    \/ VisitMoods
    \/ DrawFire
    \/ DrawExpire

SpecMoods == InitMoods /\ [][NextMoods]_vars

(***************************************************************************)
(* The component that holds the grid, GitSequencer.jsx: loads of a grid,   *)
(* and the play/stop requests of the button and of the keyboard.           *)
(***************************************************************************)
\* loadData calls that may be in progress at once
MaxLoads == 2

\* handleExport calls suspended at a time
MaxExports == 2

\* what a fetch can yield: a grid, or no grid (data: null with an error)
FetchResults == ComponentGridIds \cup {"null"}

\* GitSequencer.jsx:80-88: loadData(user) up to the await of the fetch; g is
\* the grid the fetch will yield
loadData(g) ==
    /\ isLoading' = TRUE
    /\ isAnimating' = TRUE
    /\ loads' = Append(loads, [grid |-> g, phase |-> "fetch"])
    /\ UNCHANGED dataState

\* GitSequencer.jsx:100-104 and 535-540: a running session is stopped, then
\* the load is started
stopThenLoad(g) ==
    /\ IF isPlaying
       THEN /\ stop
            /\ stopObserved
       ELSE UNCHANGED <<react, refs, tone, out, stopMark, callMark, probe>>
    /\ loadData(g)
    /\ UNCHANGED <<calls, grids, rec>>

\* GitSequencer.jsx:100-104: the form is submitted from the input, which is
\* disabled while isLoading (line 542)
Search(g) ==
    /\ ~isLoading
    /\ Len(loads) < MaxLoads
    /\ stopThenLoad(g)
    /\ lastOp' = Op("search", g, 0, "")

\* GitSequencer.jsx:535-540: the input loses the focus
Blur(g) ==
    /\ ~isLoading
    /\ Len(loads) < MaxLoads
    /\ stopThenLoad(g)
    /\ lastOp' = Op("blur", g, 0, "")

\* GitSequencer.jsx:457-464: the effect of the mount, with a user in the URL
UrlLoad(g) ==
    /\ lastOp = Op("init", "", 0, "")
    /\ loadData(g)
    /\ lastOp' = Op("urlLoad", g, 0, "")
    /\ UNCHANGED <<react, refs, tone, calls, out, stopMark, callMark, probe, grids, rec>>

\* a sequence without its i-th element
removeAt(seq, i) == SubSeq(seq, 1, i - 1) \o SubSeq(seq, i + 1, Len(seq))

\* GitSequencer.jsx:89-93: a fetch resolves; the result is installed
LoadComplete ==
    /\ \E i \in 1..Len(loads) :
        /\ loads[i].phase = "fetch"
        /\ dataState' = loads[i].grid
        /\ loads' = [loads EXCEPT ![i].phase = "anim"]
        /\ lastOp' = Op("loadComplete", loads[i].grid, 0, "")
    /\ isLoading' = FALSE
    /\ UNCHANGED <<react, refs, tone, calls, out, stopMark, callMark, probe,
                   isAnimating, grids, rec>>

\* GitSequencer.jsx:96-97: the animation timer of a load has resolved
AnimationDone ==
    /\ \E i \in 1..Len(loads) :
        /\ loads[i].phase = "anim"
        /\ loads' = removeAt(loads, i)
    /\ isAnimating' = FALSE
    /\ lastOp' = Op("animationDone", "", 0, "")
    /\ UNCHANGED <<react, refs, tone, calls, out, stopMark, callMark, probe,
                   dataState, isLoading, grids, rec>>

\* GitSequencer.jsx:604-607: the play button, disabled without a grid,
\* while isAnimating and while isRecording (error is set only with data null)
PlayButton ==
    /\ dataState # "null"
    /\ ~isAnimating
    /\ ~isRecording
    /\ isPlaying \/ CanCall(dataState)
    /\ toggle(dataState)
    /\ lastOp' = Op("button", dataState, 0, "")
    /\ UNCHANGED env

\* GitSequencer.jsx:472-475: the Space key, outside the input
SpaceKey ==
    /\ isPlaying \/ CanCall(dataState)
    /\ toggle(dataState)
    /\ lastOp' = Op("space", dataState, 0, "")
    /\ UNCHANGED env

\* GitSequencer.jsx:356-362: the branch of handleExport that ends a
\* recording, without its call of stop()
endRecording ==
    /\ mediaRecorder' = IF mediaRecorder = "recording" THEN "inactive"
                        ELSE mediaRecorder
    /\ isRecording' = FALSE
    /\ UNCHANGED exports

\* GitSequencer.jsx:483-486: the Escape key stops a running session and ends
\* a recording, which calls stop() as well
Escape ==
    /\ isPlaying \/ isRecording
    /\ stop
    /\ stopObserved
    /\ IF isRecording THEN endRecording ELSE UNCHANGED rec
    /\ lastOp' = Op("escape", "", 0, IF isRecording THEN "recording" ELSE "")
    /\ UNCHANGED <<calls, comp, grids>>

\* GitSequencer.jsx:355-371: handleExport outside a recording (Record button,
\* enabled with a grid and outside the animation, or R key, with a grid), up
\* to the await of line 371
RecordStart ==
    /\ ~isRecording
    /\ dataState # "null"
    /\ Len(exports) < MaxExports
    /\ exports' = Append(exports, [isPlaying |-> isPlaying, data |-> dataState])
    /\ lastOp' = Op("record", dataState, 0, "")
    /\ UNCHANGED <<react, refs, tone, calls, out, stopMark, callMark, probe,
                   comp, grids, isRecording, mediaRecorder>>

\* GitSequencer.jsx:372-416: Tone.start() has resolved; the recorder is
\* created and started, isRecording is set, and playback is toggled on if
\* the render of the call had isPlaying false
RecordResume ==
    /\ exports # <<>>
    /\ Head(exports).isPlaying \/ CanCall(Head(exports).data)
    /\ exports' = Tail(exports)
    /\ mediaRecorder' = "recording"
    /\ isRecording' = TRUE
    /\ IF Head(exports).isPlaying
       THEN UNCHANGED calls
       ELSE play(Head(exports).data)
    /\ lastOp' = Op("recordResume", Head(exports).data, 0, "")
    /\ UNCHANGED <<react, refs, tone, out, stopMark, callMark, probe, comp, grids>>

\* GitSequencer.jsx:371-422: the set-up of the recorder has thrown, either
\* before the recorder is stored in mediaRecorderRef (line 397) or in
\* recorder.start() (line 411), which leaves the new, inactive recorder in
\* the ref; the catch sets isRecording false
RecordFail ==
    /\ exports # <<>>
    /\ exports' = Tail(exports)
    /\ isRecording' = FALSE
    /\ \E stored \in BOOLEAN :
        mediaRecorder' = IF stored THEN "inactive" ELSE mediaRecorder
    /\ lastOp' = Op("recordFail", "", 0, "")
    /\ UNCHANGED <<react, refs, tone, calls, out, stopMark, callMark, probe,
                   comp, grids>>

\* GitSequencer.jsx:356-363: handleExport in a recording (Record button or
\* R key)
RecordStop ==
    /\ isRecording
    /\ dataState # "null"
    /\ endRecording
    /\ stop
    /\ stopObserved
    /\ lastOp' = Op("recordStop", "", 0, "")
    /\ UNCHANGED <<calls, comp, grids>>

NextComponent ==
    \/ \E g \in FetchResults : Search(g)
    \/ \E g \in FetchResults : Blur(g)
    \/ \E g \in FetchResults : UrlLoad(g)
    \/ LoadComplete
    \/ AnimationDone
    \/ PlayButton
    \/ SpaceKey
    \/ Escape
    \/ PlayResume
    \/ Visit
    \/ DrawFire
    \/ DrawExpire

SpecComponent == InitComponent /\ [][NextComponent]_vars

\* the component with its recording: a grid is loaded from the URL, and
\* playback is started by recordings only
RecordingGrid == "sparse"

NextRecording ==
    \/ UrlLoad(RecordingGrid)
    \/ LoadComplete
    \/ AnimationDone
    \/ RecordStart
    \/ RecordResume
    \/ RecordFail
    \/ RecordStop
    \/ Escape
    \/ PlayResume
    \/ Visit
    \/ DrawFire
    \/ DrawExpire

SpecRecording == InitComponent /\ [][NextRecording]_vars

(***************************************************************************)
(* The pure functions applied on their own, on every input of a bounded    *)
(* set: a behaviour applies one function to one input.                     *)
(***************************************************************************)
\* the highest sum of a block: 4 weeks of 7 days of the highest level
MaxBlockActivity == 4 * 7 * MaxLevel

Applied(fn, input, output) == [fn |-> fn, input |-> input, output |-> output]

ApplyGetScaleForActivity ==
    /\ UNCHANGED env
    /\ probe = NoProbe
    /\ \E activity \in 0..MaxBlockActivity :
        probe' = Applied("getScaleForActivity", <<activity>>,
                         getScaleForActivity(activity))
    /\ UNCHANGED <<react, refs, tone, calls, lastOp, out, stopMark, callMark>>

ApplyFindChordRoot ==
    /\ UNCHANGED env
    /\ probe = NoProbe
    /\ \E a \in 0..MaxLevel, b \in 0..MaxLevel, c \in 0..MaxLevel,
          colIndex \in 0..(NumWeeks - 1) :
        probe' = Applied("findChordRoot", <<a, b, c, colIndex>>,
                         findChordRoot(ProbeGrid(a, b, c), colIndex))
    /\ UNCHANGED <<react, refs, tone, calls, lastOp, out, stopMark, callMark>>

ApplySelectedNotes ==
    /\ UNCHANGED env
    /\ probe = NoProbe
    /\ \E S \in SUBSET (0..6) :
        \E sel \in selectedNotes(ProbeWeek(S)) :
            probe' = Applied("selectedNotes", <<S>>, sel)
    /\ UNCHANGED <<react, refs, tone, calls, lastOp, out, stopMark, callMark>>

ApplySelectedNotesByDensity ==
    /\ UNCHANGED env
    /\ probe = NoProbe
    /\ \E S \in SUBSET (0..6) :
        \E sel \in selectedNotesByDensity(ProbeWeek(S)) :
            probe' = Applied("selectedNotesByDensity", <<S>>, sel)
    /\ UNCHANGED <<react, refs, tone, calls, lastOp, out, stopMark, callMark>>

ApplyCalculatedBpm ==
    /\ UNCHANGED env
    /\ probe = NoProbe
    /\ \E n \in 0..MaxCount, m \in {0, 49, 50} :
        probe' = Applied("calculatedBpm", <<n, m>>, calculatedBpm(TempoGrid(n, m)))
    /\ UNCHANGED <<react, refs, tone, calls, lastOp, out, stopMark, callMark>>

ApplyDrumVoice ==
    /\ UNCHANGED env
    /\ probe = NoProbe
    /\ \E beat \in 0..3, blockActivity \in 0..MaxBlockActivity :
        probe' = Applied("drumVoice", <<beat, blockActivity>>,
                         drumVoice(beat, blockActivity))
    /\ UNCHANGED <<react, refs, tone, calls, lastOp, out, stopMark, callMark>>

(***************************************************************************)
(* The data layer: services/github.js (part_003, and its earlier version   *)
(* part_002) and utils/generateGraph.js.  A date is the number of days     *)
(* from the first day of the current week: the grid's window is            *)
(* -7 * 51 .. 6.  A result that may be null is a sequence of at most one   *)
(* grid.                                                                   *)
(***************************************************************************)
Null == <<>>
Some(grid) == <<grid>>

\* the date of day d of the week that lies w weeks before the current one
\* (subWeeks(currentWeekStart, w), addDays(weekStart, d))
dateOf(w, d) == d - 7 * w

\* part_003:8-29
generateEmptyGrid ==
    [weeks |-> [k \in 1..WeeksPerYear |->
        [days |-> [d \in 1..7 |-> [level |-> 0, count |-> 0]]]]]

\* contributionMap.get(date) after the items were set in order: the last
\* item of that date, if any
mapGet(items, date) ==
    LET at == {i \in 1..Len(items) : items[i].date = date}
    IN IF at = {} THEN Null
       ELSE Some(items[CHOOSE i \in at : \A j \in at : j <= i])

\* part_003:114-133 (and 165-182, part_002:46-65): the loop from w = 51 down
\* to 0 over the map of the items; `first` is the first value of w
windowGrid(items, first) ==
    [weeks |-> [k \in 1..(first + 1) |->
        [days |-> [d \in 1..7 |->
            LET data == mapGet(items, dateOf(first + 1 - k, d - 1))
            IN [level |-> IF data # Null THEN data[1].level ELSE 0,
                count |-> IF data # Null THEN data[1].count ELSE 0]]]]]

\* normalizeGitHubData whose loop starts at w = 52
normalizeGitHubDataFrom52(flatContributions) ==
    IF ~flatContributions.isArray THEN Null
    ELSE Some(windowGrid(flatContributions.items, WeeksPerYear))

\* part_003:103-134
normalizeGitHubData(flatContributions) ==
    IF ~flatContributions.isArray THEN Null
    ELSE Some(windowGrid(flatContributions.items, WeeksPerYear - 1))

\* the quantisation that reaches a level at its threshold
gitLabLevelAtThreshold(count, maxCount) ==
    IF count > 0
    THEN IF 4 * count >= 3 * maxCount THEN 4
         ELSE IF 2 * count >= maxCount THEN 3
         ELSE IF 4 * count >= maxCount THEN 2
         ELSE 1
    ELSE 0

\* part_003:148-156: the level of a count relative to the largest count;
\* count / maxCount > 0.75 is 4 * count > 3 * maxCount for integers
gitLabLevel(count, maxCount) ==
    IF count > 0
    THEN IF 4 * count > 3 * maxCount THEN 4
         ELSE IF 2 * count > maxCount THEN 3
         ELSE IF 4 * count > maxCount THEN 2
         ELSE 1
    ELSE 0

\* Math.max(...counts, 1)
maxOf(counts) ==
    CHOOSE m \in counts \cup {1} : \A c \in counts \cup {1} : c <= m

\* part_003:137-183; calendarData.entries maps dates to counts
normalizeGitLabData(calendarData) ==
    IF ~calendarData.isObject THEN Null
    ELSE LET entries == calendarData.entries
             maxCount == maxOf({entries[date] : date \in DOMAIN entries})
             data(date) == IF date \in DOMAIN entries
                           THEN Some([count |-> entries[date],
                                      level |-> gitLabLevel(entries[date], maxCount)])
                           ELSE Null
         IN Some([weeks |-> [k \in 1..WeeksPerYear |->
                [days |-> [d \in 1..7 |->
                    LET cell == data(dateOf(WeeksPerYear - k, d - 1))
                    IN [level |-> IF cell # Null THEN cell[1].level ELSE 0,
                        count |-> IF cell # Null THEN cell[1].count ELSE 0]]]]])

\* generateGraph.js:12-17: the level of a random number, in hundredths
mockLevel(rand) ==
    IF rand > 98 THEN 4
    ELSE IF rand > 95 THEN 3
    ELSE IF rand > 85 THEN 2
    ELSE IF rand > 70 THEN 1
    ELSE 0

\* generateGraph.js:3-28; tape holds the values of Math.random(), in
\* hundredths, that the cells draw in turn
generateMockData(tape) ==
    [weeks |-> [k \in 1..WeeksPerYear |->
        [days |-> [d \in 1..7 |->
            LET rand == tape[(((k - 1) * 7 + (d - 1)) % Len(tape)) + 1]
                level == mockLevel(rand)
            IN [level |-> level, count |-> level * 3]]]]]

\* dates of the items an API answers with: the first day of the window, the
\* first day of the current week, and a day after the window
ApiDates == {dateOf(WeeksPerYear - 1, 0), dateOf(0, 0), dateOf(0, 7)}

\* items of the GitHub API
ApiItems == [date : ApiDates, level : {0, 3}, count : {0, 9}]

\* responses of the GitHub API's contributions field
GitHubResponses ==
    {[isArray |-> FALSE, items |-> <<>>]} \cup
    {[isArray |-> TRUE, items |-> items] :
        items \in {<<>>} \cup {<<a>> : a \in ApiItems}
                         \cup {<<a, b>> : a \in ApiItems, b \in ApiItems}}

\* calendars of the GitLab API
GitLabResponses ==
    {[isObject |-> FALSE, entries |-> <<>>]} \cup
    {[isObject |-> TRUE, entries |-> entries] :
        entries \in UNION {[D -> 0..4] : D \in SUBSET ApiDates}}

\* values of Math.random() on both sides of each threshold
RandValues == {0, 70, 71, 85, 86, 95, 96, 98, 99}

\* what axios.get yields for the GitHub API: a response whose data may have
\* a contributions field, or an error with or without status 404
GitHubReplies ==
    {[status |-> st, present |-> FALSE, contributions |-> [isArray |-> FALSE, items |-> <<>>]] :
        st \in {"ok", "notFound", "failed"}} \cup
    {[status |-> "ok", present |-> TRUE, contributions |-> c] :
        c \in {r \in GitHubResponses : Len(r.items) <= 1}}

\* the texts of an error field of the proxy and of error.message; "" is none
ErrorTexts == {"", "User not found on GitLab"}
MessageTexts == {"", "Network Error"}

\* what axios.get yields for the GitLab proxy.  status is "ok" for a
\* response, "notFound" for a rejection whose error.response.status is 404
\* and "failed" for any other rejection; errorBody is the error field of the
\* body (response.data.error, error.response.data.error), message is
\* error.message; kind is what response.data is: absent, a number or boolean
\* ("scalar"), a non-empty string, or an object, whose entries calendar holds
GitLabReplies ==
    {[status |-> st, errorBody |-> e, message |-> m, kind |-> "absent",
      calendar |-> [isObject |-> FALSE, entries |-> <<>>]] :
        st \in {"notFound", "failed"}, e \in ErrorTexts, m \in MessageTexts} \cup
    {[status |-> "ok", errorBody |-> "", message |-> "", kind |-> k,
      calendar |-> [isObject |-> FALSE, entries |-> <<>>]] :
        k \in {"absent", "scalar", "string"}} \cup
    {[status |-> "ok", errorBody |-> "User not found on GitLab", message |-> "",
      kind |-> "object", calendar |-> [isObject |-> TRUE, entries |-> <<>>]]} \cup
    {[status |-> "ok", errorBody |-> "", message |-> "", kind |-> "object",
      calendar |-> c] :
        c \in {r \in GitLabResponses :
                /\ r.isObject
                /\ \A date \in DOMAIN r.entries : r.entries[date] \in {0, 4}}}

\* part_003:32-54; reply is what axios.get yields
fetchGitHubContributions(username, reply) ==
    IF username = ""
    THEN [data |-> Null, error |-> "null"]
    \* 49-50: the user name is put into the text
    ELSE IF reply.status = "notFound"
    THEN [data |-> Null, error |-> "User \"" \o username \o "\" not found on GitHub"]
    ELSE IF reply.status # "ok"
    THEN [data |-> Null, error |-> "Failed to fetch GitHub data"]
    ELSE IF ~reply.present
            \/ (reply.contributions.isArray /\ Len(reply.contributions.items) = 0)
    THEN [data |-> Some(generateEmptyGrid), error |-> "null"]
    ELSE LET normalized == normalizeGitHubData(reply.contributions)
         IN IF normalized = Null
            THEN [data |-> Null, error |-> "Failed to parse GitHub data"]
            ELSE [data |-> normalized, error |-> "null"]

\* part_003:81-91: the message of the catch block
gitLabErrorMessage(reply) ==
    IF reply.errorBody # "" THEN reply.errorBody
    ELSE IF reply.status = "notFound"
    THEN "API endpoint not found - deploy to Vercel first"
    ELSE IF reply.message # "" THEN reply.message
    ELSE "Failed to fetch GitLab data"

\* part_003:57-92
fetchGitLabContributions(username, reply) ==
    IF username = ""
    THEN [data |-> Null, error |-> "null"]
    ELSE IF reply.status # "ok"
    THEN [data |-> Null, error |-> gitLabErrorMessage(reply)]
    \* 66-68: response.data && response.data.error
    ELSE IF reply.kind = "object" /\ reply.errorBody # ""
    THEN [data |-> Null, error |-> reply.errorBody]
    \* 71-73: !response.data || Object.keys(response.data).length === 0; a
    \* number or a boolean has no keys, a non-empty string has its indices
    ELSE IF \/ reply.kind \in {"absent", "scalar"}
            \/ (reply.kind = "object" /\ DOMAIN reply.calendar.entries = {})
    THEN [data |-> Some(generateEmptyGrid), error |-> "null"]
    ELSE LET normalized == normalizeGitLabData(reply.calendar)
         IN IF normalized = Null
            THEN [data |-> Null, error |-> "Failed to parse GitLab data"]
            ELSE [data |-> normalized, error |-> "null"]

\* part_003:95-100
fetchContributions(username, platform, reply) ==
    IF platform = "gitlab"
    THEN fetchGitLabContributions(username, reply)
    ELSE fetchGitHubContributions(username, reply)

\* the identities asked for: none, and a user name
Usernames == {"", "octocat"}

ApplyFetchContributions ==
    /\ UNCHANGED env
    /\ probe = NoProbe
    /\ \E username \in Usernames :
        \/ \E reply \in GitHubReplies :
            probe' = Applied("fetchContributions", <<username, "github", reply>>,
                             fetchContributions(username, "github", reply))
        \/ \E reply \in GitLabReplies :
            probe' = Applied("fetchContributions", <<username, "gitlab", reply>>,
                             fetchContributions(username, "gitlab", reply))
    /\ UNCHANGED <<react, refs, tone, calls, lastOp, out, stopMark, callMark>>

(***************************************************************************)
(* The timbre selector, useAudioEngine.js:24-33.  hash is a JavaScript     *)
(* number: `hash << 5` is taken on its 32-bit two's complement value, the  *)
(* subtraction and the addition are not.  A number is a pair <<hi, lo>> of *)
(* value hi * 2^16 + lo with lo in 0..2^16-1; a string is the sequence of  *)
(* its char codes.                                                         *)
(***************************************************************************)
Half == 2^16

\* the pair of the number hi * 2^16 + lo, for any lo
pair(hi, lo) == <<hi + (lo \div Half), lo % Half>>

\* h << 5: ToInt32(h) shifted left by 5 bits, as a signed 32-bit value
shiftLeft5(h) ==
    LET low == h[2] * 32
        high == (((h[1] % (2^11)) * 32) + (low \div Half)) % Half
    IN <<IF high >= 2^15 THEN high - Half ELSE high, low % Half>>

\* a - b
minus(a, b) == pair(a[1] - b[1], a[2] - b[2])

\* useAudioEngine.js:30: the hash after one more char code
hashStep(hash, charCode) ==
    LET d == minus(shiftLeft5(hash), hash)
    IN pair(d[1], d[2] + charCode)

\* useAudioEngine.js:28-31: the hash of the first n char codes
RECURSIVE hashOf(_, _)
hashOf(username, n) ==
    IF n = 0 THEN <<0, 0>>
    ELSE hashStep(hashOf(username, n - 1), username[n])

\* h % 4, of the sign of h (the remainder of JavaScript)
rem4(h) == IF h[1] < 0 THEN -((4 - (h[2] % 4)) % 4) ELSE h[2] % 4

\* Math.abs(h) % 4
absRem4(h) == IF h[1] < 0 THEN (4 - (h[2] % 4)) % 4 ELSE h[2] % 4

\* useAudioEngine.js:24
SOOTHING_TYPES == <<"fmsine", "fattriangle", "fmtriangle", "pulse">>

\* array[index] of JavaScript
elementAt(array, index) ==
    IF index \in 0..(Len(array) - 1) THEN array[index + 1] ELSE "undefined"

\* the selector without Math.abs
getSignatureOscillatorNoAbs(username) ==
    elementAt(SOOTHING_TYPES, rem4(hashOf(username, Len(username))))

\* useAudioEngine.js:27-33
getSignatureOscillator(username) ==
    elementAt(SOOTHING_TYPES, absRem4(hashOf(username, Len(username))))

\* the longest user name
MaxNameLen == 7

\* the char codes of "a" and "z"
CharCodes == {97, 122}

\* user names: the empty string, and names long enough for the shift to
\* overflow
Names == UNION {[1..n -> CharCodes] : n \in 0..MaxNameLen}

ApplyGetSignatureOscillator ==
    /\ UNCHANGED env
    /\ probe = NoProbe
    /\ \E username \in Names :
        probe' = Applied("getSignatureOscillator", username,
                         getSignatureOscillator(username))
    /\ UNCHANGED <<react, refs, tone, calls, lastOp, out, stopMark, callMark>>

\* useAudioEngine.js:81-105, the effect that (re)builds the engine for a user
\* name: oscType is computed from the name (line 83), and the lead synth is
\* created with the oscillator type 'fmsine' (line 98)
initLeadSynth(username) ==
    [oscType |-> getSignatureOscillator(username),
     oscillator |-> "fmsine"]

ApplyInitLeadSynth ==
    /\ UNCHANGED env
    /\ probe = NoProbe
    /\ \E username \in Names :
        probe' = Applied("initLeadSynth", username, initLeadSynth(username))
    /\ UNCHANGED <<react, refs, tone, calls, lastOp, out, stopMark, callMark>>

(***************************************************************************)
(* The chord trigger, useAudioEngine.js:180-186.                           *)
(***************************************************************************)
\* useAudioEngine.js:11-16
CHORD_ROOTS ==
    [pentatonic |-> <<"C3", "D3", "E3", "G3", "A3", "C4", "D4">>,
     lydian |-> <<"C3", "D3", "E3", "F#3", "G3", "A3", "B3">>,
     dorian |-> <<"C3", "D3", "Eb3", "F3", "G3", "A3", "Bb3">>,
     phrygianDom |-> <<"C3", "Db3", "E3", "F3", "G3", "Ab3", "Bb3">>]

\* the chord whose third and fifth are read without the wrap at 7
playChordNoWrap(type, rootIndex) ==
    LET roots == IF type \in DOMAIN CHORD_ROOTS
                 THEN CHORD_ROOTS[type] ELSE CHORD_ROOTS["pentatonic"]
    IN <<[notes |-> <<elementAt(roots, rootIndex % 7),
                      elementAt(roots, rootIndex + 2),
                      elementAt(roots, rootIndex + 4)>>,
          duration |-> "1n"]>>

\* useAudioEngine.js:180-186: the triggers of the pad synth, one
\* triggerAttackRelease with the array of three notes
playChord(type, rootIndex) ==
    LET roots == IF type \in DOMAIN CHORD_ROOTS
                 THEN CHORD_ROOTS[type] ELSE CHORD_ROOTS["pentatonic"]
    IN <<[notes |-> <<elementAt(roots, rootIndex % 7),
                      elementAt(roots, (rootIndex + 2) % 7),
                      elementAt(roots, (rootIndex + 4) % 7)>>,
          duration |-> "1n"]>>

ApplyPlayChord ==
    /\ UNCHANGED env
    /\ probe = NoProbe
    /\ \E type \in DOMAIN CHORD_ROOTS, rootIndex \in 0..6 :
        probe' = Applied("playChord", <<type, rootIndex>>,
                         playChord(type, rootIndex))
    /\ UNCHANGED <<react, refs, tone, calls, lastOp, out, stopMark, callMark>>

ApplyGenerateEmptyGrid ==
    /\ UNCHANGED env
    /\ probe = NoProbe
    /\ probe' = Applied("generateEmptyGrid", <<>>, Some(generateEmptyGrid))
    /\ UNCHANGED <<react, refs, tone, calls, lastOp, out, stopMark, callMark>>

ApplyNormalizeGitHubData ==
    /\ UNCHANGED env
    /\ probe = NoProbe
    /\ \E flatContributions \in GitHubResponses :
        probe' = Applied("normalizeGitHubData", flatContributions,
                         normalizeGitHubData(flatContributions))
    /\ UNCHANGED <<react, refs, tone, calls, lastOp, out, stopMark, callMark>>

ApplyNormalizeGitLabData ==
    /\ UNCHANGED env
    /\ probe = NoProbe
    /\ \E calendarData \in GitLabResponses :
        probe' = Applied("normalizeGitLabData", calendarData,
                         normalizeGitLabData(calendarData))
    /\ UNCHANGED <<react, refs, tone, calls, lastOp, out, stopMark, callMark>>

ApplyGenerateMockData ==
    /\ UNCHANGED env
    /\ probe = NoProbe
    /\ \E a \in RandValues, b \in RandValues :
        probe' = Applied("generateMockData", <<a, b>>, Some(generateMockData(<<a, b>>)))
    /\ UNCHANGED <<react, refs, tone, calls, lastOp, out, stopMark, callMark>>

NextFn ==
    \/ ApplyGetScaleForActivity
    \/ ApplyFindChordRoot
    \/ ApplySelectedNotes
    \/ ApplyCalculatedBpm
    \/ ApplyDrumVoice
    \/ ApplyGenerateEmptyGrid
    \/ ApplyNormalizeGitHubData
    \/ ApplyNormalizeGitLabData
    \/ ApplyGenerateMockData
    \/ ApplyFetchContributions
    \/ ApplyGetSignatureOscillator
    \/ ApplyInitLeadSynth
    \/ ApplyPlayChord
    \/ ApplySelectedNotesByDensity

SpecFn == Init /\ [][NextFn]_vars

(***************************************************************************)
(* Properties.                                                             *)
(***************************************************************************)
\* the only sequence scheduled on the transport is the one sequenceRef holds
LiveIsCurrent == live \subseteq {sequenceRef} \ {0}

\* C1: a session stopped before its first column visit, also while play() is
\* still suspended at the await, never issues a sound trigger, and stop()
\* leaves isPlaying = false and the column at -1.  The sessions from stopMark
\* up to callMark are those suspended at the last stop().
C1_ImmediateStopSilences ==
    /\ lastOp.op = "visit" => ~(stopMark <= lastOp.sess /\ lastOp.sess < callMark)
    /\ lastOp.op = "stop" => (isPlaying = FALSE /\ activeCol = -1)

\* C2: after stop() the column is -1, the scale is pentatonic, the tempo is
\* 80 and isPlaying is false.
C2_StopResetsAll ==
    lastOp.op = "stop" =>
        (activeCol = -1 /\ scaleType = "pentatonic" /\ bpm = 80 /\ isPlaying = FALSE)

\* C3: after stop() no column visit of a session whose sequence was created
\* before that stop() fires: every visit is of a session resumed after it.
C3_NoVisitOfStoppedSession ==
    lastOp.op = "visit" => lastOp.sess >= stopMark

\* session 1 was created and stopped, and a later session is visited
C3_Witness ==
    /\ lastOp.op = "visit"
    /\ callData[1] \in GridIds
    /\ stopMark > 1
    /\ lastOp.sess >= stopMark

\* C4: whenever isPlaying is false the column is -1 and no day is sounding.
C4_StoppedShowsNoColumn ==
    ~isPlaying => (activeCol = -1 /\ activeNotes = {})

\* C5: a toggle while a session is playing or a start is pending performs
\* stop(): it starts no further session and leaves isPlaying false.
C5_ToggleStopsPendingStart ==
    [][(lastOp'.op = "toggle" /\ (isPlaying \/ pending # <<>>)) =>
        (isPlaying' = FALSE /\ nextId' = nextId)]_vars

\* C6: once a session is active, the only events that fire are its own: no
\* column visit and no visual callback of an older session.
C6_NoOldSessionEvent ==
    (lastOp.op \in {"visit", "draw"} /\ sequenceRef # 0) => lastOp.sess = sequenceRef

\* C7: the first visit of a session is column 0 and every later visit of
\* the session has the index of the previous visit plus one.
C7_StrictlyIncreasing ==
    [][lastOp'.op = "visit" =>
        IF out.session = out'.session
        THEN out'.col = out.col + 1
        ELSE out'.col = 0]_vars

\* C8: play(null) changes nothing: no suspended call, no session, no sound
\* trigger, no change of the playback state.
C8_AbsentGridNoOp ==
    [][(lastOp'.op = "play" /\ lastOp'.arg = "null") =>
        UNCHANGED <<react, refs, tone, calls, out>>]_vars

\* play(null) while a session is playing
C8_Witness == lastOp.op = "play" /\ lastOp.arg = "null" /\ isPlaying /\ pos > 0

\* C9: play() of an object without weeks raises no error.
C9_MalformedGridNoOp ==
    (lastOp.op = "resume" /\ callData[lastOp.sess] = "noWeeks") => lastOp.res # "threw"

\* C10: stop() while isPlaying is false leaves every field of the playback
\* state as it was.
C10_StopWhenStoppedNoOp ==
    [][(lastOp'.op = "stop" /\ ~isPlaying) =>
        UNCHANGED <<isPlaying, activeCol, activeNotes, scaleType, currentPattern,
                    bpm>>]_vars

\* C11 as stated: a change of the scale mode never changes the scale used by
\* notes before the next visit of a column with i mod 4 = 0: two successive
\* visits with notes, the second inside a block, use the same scale.
C11_ScaleConstantWithinBlock ==
    [][(lastOp'.op = "visit" /\ out'.col % 4 # 0 /\ out.notes # {} /\ out'.notes # {}) =>
        out'.noteScale = out.noteScale]_vars

\* C11 amended: changeScale("auto") leaves the scale as it is, changeScale(v)
\* for a pinned v sets it to v at once; a visit inside a block leaves the
\* scale as it is and triggers its notes with it, a visit at a block boundary
\* triggers its chord with it: a pinned scale sounds from the next visit on,
\* whichever beat that is.
C11_PinnedAtOnceAutoAtBoundary ==
    [][/\ lastOp'.op = "changeScale" =>
            scaleTypeRef' = IF lastOp'.arg = "auto" THEN scaleTypeRef ELSE lastOp'.arg
       /\ (lastOp'.op = "visit" /\ out'.col % 4 # 0) =>
            /\ scaleTypeRef' = scaleTypeRef
            /\ out'.notes # {} => out'.noteScale = scaleTypeRef
       /\ (lastOp'.op = "visit" /\ out'.col % 4 = 0) =>
            out'.chord.scale = scaleTypeRef]_vars

\* a visit inside a block whose notes use the scale pinned after the block's
\* mood was computed
C11_Witness ==
    /\ lastOp.op = "visit"
    /\ out.col % 4 # 0
    /\ out.noteScale = "dorian"
    /\ currentPattern = "Dreamy (Med)"

\* C12: changeScale("dorian") disables the automatic mood and sets the scale
\* to dorian; changeScale("auto") enables it and leaves the scale as it is;
\* with the automatic mood enabled a visit inside a block leaves the scale as
\* it is and a visit of a column with beat 0 sets it to the mood of the
\* column's block.
C12_PinThenAuto ==
    [][/\ (lastOp'.op = "changeScale" /\ lastOp'.arg = "dorian") =>
            /\ ~autoScale' /\ ~autoScaleRef'
            /\ scaleType' = "dorian" /\ scaleTypeRef' = "dorian"
       /\ (lastOp'.op = "changeScale" /\ lastOp'.arg = "auto") =>
            /\ autoScale' /\ autoScaleRef'
            /\ UNCHANGED <<scaleType, scaleTypeRef>>
       /\ (lastOp'.op = "visit" /\ autoScaleRef) =>
            IF out'.col % 4 = 0
            THEN LET mood == getScaleForActivity(
                                getBlockActivity(Grid(callData[out'.session]), out'.col))
                 IN scaleType' = mood.scale /\ scaleTypeRef' = mood.scale
            ELSE UNCHANGED <<scaleType, scaleTypeRef>>]_vars

\* a visit inside a block with the automatic mood enabled again and the scale
\* still dorian, which no block of the grid has as its mood
C12_Witness ==
    /\ lastOp.op = "visit"
    /\ autoScaleRef
    /\ out.col % 4 # 0
    /\ scaleTypeRef = "dorian"
    /\ out.noteScale = "dorian"

\* C13: while the automatic mood is disabled no column visit changes the
\* scale, and the scale is the pinned value.
C13_PinnedScaleSurvivesVisits ==
    [][/\ (lastOp'.op = "visit" /\ ~autoScaleRef) =>
            UNCHANGED <<scaleType, scaleTypeRef, currentPattern>>
       /\ ~autoScaleRef' =>
            (scaleTypeRef' \in ScaleValues \ {"auto"} /\ scaleType' = scaleTypeRef')]_vars

\* the visit of the first column of the second block with the scale pinned:
\* the block's mood is pentatonic, the chord sounds in dorian
C13_Witness ==
    /\ lastOp.op = "visit"
    /\ ~autoScaleRef
    /\ out.col = 4
    /\ out.chord.scale = "dorian"
    /\ scaleTypeRef = "dorian"

\* C14 as stated: on the all-zero grid the tempo is 80 and a visit triggers
\* no note, no chord, no snare and no hi-hat, and a kick exactly at beat 0.
C14_ZeroGridKicksOnly ==
    (lastOp.op = "visit" /\ callData[out.session] = "zero") =>
        /\ bpm = 80 /\ transportBpm = 80
        /\ out.notes = {} /\ out.played = {}
        /\ ~out.chord.on
        /\ out.drum = IF out.col % 4 = 0 THEN "kick" ELSE "none"

\* C14 amended: on the all-zero grid the tempo is 80 and a visit triggers no
\* note, no snare and no hi-hat; a visit of a column with beat 0 triggers a
\* kick and a chord on root index 0, every other visit triggers nothing.
C14_ZeroGridKicksAndChords ==
    (lastOp.op = "visit" /\ callData[out.session] = "zero") =>
        /\ bpm = 80 /\ transportBpm = 80
        /\ out.notes = {} /\ out.played = {}
        /\ out.chord = IF out.col % 4 = 0
                       THEN [on |-> TRUE, scale |-> "pentatonic", root |-> 0]
                       ELSE NoChord
        /\ out.drum = IF out.col % 4 = 0 THEN "kick" ELSE "none"

\* the visit of the last column of the all-zero grid
C14_Witness ==
    /\ lastOp.op = "visit"
    /\ callData[out.session] = "zero"
    /\ out.col = WeeksPerYear - 1
    /\ out.drum = "none"

\* C15: every column visit, also of a column without an active cell, hands
\* Tone.Draw a callback with the column index and the days that sounded.
C15_EveryVisitDispatches ==
    lastOp.op = "visit" =>
        /\ drawQueue # <<>>
        /\ drawQueue[Len(drawQueue)].col = out.col
        /\ drawQueue[Len(drawQueue)].notes = out.notes

\* C16: every day index the note selector selects is a day of the week with
\* level > 0.
C16_OnlyActiveDaysSound ==
    probe.fn = "selectedNotes" =>
        \A i \in probe.output : ProbeWeek(probe.input[1]).days[i + 1].level > 0

\* four notes selected in a week with five active days and two inactive ones
C16_Witness ==
    /\ probe.fn = "selectedNotes"
    /\ Cardinality(probe.input[1]) = 5
    /\ Cardinality(probe.output) = 4

\* C17: in a week with k active days the selector selects no day when k = 0
\* and otherwise at least 1 and at most min(4, k) days; the selection is a
\* set of day indices of the week.
C17_PolyphonyBounded ==
    probe.fn = "selectedNotes" =>
        LET week == ProbeWeek(probe.input[1])
            k == Cardinality({d \in 1..Len(week.days) : week.days[d].level > 0})
            n == Cardinality(probe.output)
        IN /\ probe.output \subseteq 0..(Len(week.days) - 1)
           /\ IF k = 0 THEN n = 0 ELSE 1 <= n /\ n <= Min(4, k)

\* four notes selected in a week with seven active days
C17_Witness ==
    /\ probe.fn = "selectedNotes"
    /\ probe.input[1] = 0..6
    /\ Cardinality(probe.output) = 4

\* C18: on the grid with the single active cell the tempo is 80, the mood of
\* every visit is the Zen tier, and the visit of column 10 triggers exactly
\* the note of day 3, with pitch index 0.
C18_SingleCellScenario ==
    (lastOp.op = "visit" /\ callData[out.session] = "single") =>
        /\ bpm = 80 /\ transportBpm = 80
        /\ scaleType = "pentatonic" /\ scaleTypeRef = "pentatonic"
        /\ currentPattern = "Zen (Low)"
        /\ out.col = 10 =>
            /\ out.notes = {3}
            /\ \A n \in out.played : n.day = 3 /\ n.noteIndex = 0
            /\ out.played # {}
        /\ out.col # 10 => out.notes = {}

\* the visit of column 10 of the grid with the single active cell
C18_Witness ==
    /\ lastOp.op = "visit"
    /\ callData[out.session] = "single"
    /\ out.col = 10
    /\ out.notes = {3}

\* C19: the mood selector maps the sums 0..10 to the Zen tier, 11..30 to the
\* Dreamy tier, 31..50 to the Focus tier and 51..112 to the Intense tier.
C19_MoodStepFunction ==
    probe.fn = "getScaleForActivity" =>
        LET sum == probe.input[1]
        IN /\ sum \in 0..10 =>
                probe.output = [scale |-> "pentatonic", pattern |-> "Zen (Low)"]
           /\ sum \in 11..30 =>
                probe.output = [scale |-> "lydian", pattern |-> "Dreamy (Med)"]
           /\ sum \in 31..50 =>
                probe.output = [scale |-> "dorian", pattern |-> "Focus (High)"]
           /\ sum \in 51..MaxBlockActivity =>
                probe.output = [scale |-> "phrygianDom", pattern |-> "Intense (Extreme)"]

\* the boundary sum 50 resolves to the Focus tier
C19_Witness ==
    /\ probe.fn = "getScaleForActivity"
    /\ probe.input[1] = 50
    /\ probe.output.scale = "dorian"

\* C20: the chord root of a window is a day index in 0..6, and it is 0 when
\* no day of the weeks of the window that exist has a level above 2.
C20_QuietWindowRootZero ==
    probe.fn = "findChordRoot" =>
        LET a == probe.input[1]
            b == probe.input[2]
            c == probe.input[3]
            colIndex == probe.input[4]
            window == {w \in colIndex..(colIndex + 3) : w < NumWeeks}
            quiet == \A w \in window, d \in 0..6 : ProbeLevel(a, b, c, w, d) <= 2
        IN /\ probe.output \in 0..6
           /\ quiet => probe.output = 0

\* a window clipped at the end of the grid whose active cells have level 2
C20_Witness ==
    /\ probe.fn = "findChordRoot"
    /\ probe.input = <<2, 2, 2, NumWeeks - 2>>
    /\ probe.output = 0

\* C21: when some day of the window has a level above 2, the chord root is
\* the day index of the first cell, weeks in increasing order and days 0..6
\* within a week, among the cells that hold the highest level of the window.
C21_FirstMaximalCell ==
    probe.fn = "findChordRoot" =>
        LET a == probe.input[1]
            b == probe.input[2]
            c == probe.input[3]
            colIndex == probe.input[4]
            cells == {wd \in (colIndex..(colIndex + 3)) \X (0..6) : wd[1] < NumWeeks}
            level(wd) == ProbeLevel(a, b, c, wd[1], wd[2])
            before(x, y) == x[1] < y[1] \/ (x[1] = y[1] /\ x[2] < y[2])
            maximal == {x \in cells : \A y \in cells : level(y) <= level(x)}
            first == CHOOSE x \in maximal : \A y \in maximal : y = x \/ before(x, y)
        IN (\E x \in cells : level(x) > 2) => probe.output = first[2]

\* a tie between day 2 of the first week of the window and day 0 of the
\* second: the root is day 2
C21_Witness ==
    /\ probe.fn = "findChordRoot"
    /\ probe.input = <<0, 3, 3, 0>>
    /\ probe.output = 2

\* C22: the tempo is 80 + floor(total / 50) kept within 80..110, total being
\* the sum of the counts: it is 80 for a total of 0, 110 from a total of 1500
\* on, and never lower for a higher total.
C22_TempoClamped ==
    probe.fn = "calculatedBpm" =>
        LET total == probe.input[1] + probe.input[2]
            tempo == probe.output
        IN /\ tempo \in 80..110
           /\ total = 0 => tempo = 80
           /\ total >= 1500 => tempo = 110
           /\ total < 1500 =>
                (50 * (tempo - 80) <= total /\ total < 50 * (tempo - 80) + 50)
           /\ tempo <= calculatedBpm(TempoGrid(probe.input[1] + 1, probe.input[2]))

\* a total count above the one that reaches the cap
C22_Witness ==
    /\ probe.fn = "calculatedBpm"
    /\ probe.input = <<1550, 50>>
    /\ probe.output = 110

\* C23: the tempo of the hook and of the transport is computed from the
\* session's grid when the session starts, and nothing else changes it: no
\* column visit, no change of scale, no visual callback, no other operation.
C23_TempoFixedInSession ==
    [][IF lastOp'.op = "resume" /\ lastOp'.res = "started"
       THEN /\ isPlaying'
            /\ bpm' = calculatedBpm(Grid(callData[sequenceRef']))
            /\ transportBpm' = bpm'
       ELSE UNCHANGED <<bpm, transportBpm>>]_vars

\* a visit past the first pass over the grid, after a change of scale, with
\* the tempo of the start
C23_Witness ==
    /\ lastOp.op = "visit"
    /\ pos > NumWeeks
    /\ scaleType = "dorian"
    /\ bpm = calculatedBpm(MixedGrid)
    /\ bpm > 80

\* C24: beat 0 triggers a kick whatever the activity; beat 2 a snare exactly
\* when the block sum is above 5; beats 1 and 3 a hi-hat of intensity 0.3
\* when the sum is above 15, of intensity 0.2 when it is above 5 and at most
\* 15, and nothing when it is at most 5.
C24_DrumPattern ==
    probe.fn = "drumVoice" =>
        LET b == probe.input[1]
            sum == probe.input[2]
            voice == probe.output
        IN /\ b = 0 => voice = "kick"
           /\ b = 2 => (voice = "snare" <=> sum >= 6)
           /\ b \in {1, 3} =>
                /\ sum >= 16 => voice = "hihat0.3"
                /\ sum \in 6..15 => voice = "hihat0.2"
                /\ sum <= 5 => voice = "none"

\* beat 2 of a busy block: the snare, not the hi-hat
C24_Witness ==
    /\ probe.fn = "drumVoice"
    /\ probe.input = <<2, 16>>
    /\ probe.output = "snare"


\* C25: whenever a newly loaded grid replaces the held one, no session is
\* running, and no column visit reads a grid other than the held one.
C25_NoSessionAtInstall ==
    [][/\ (lastOp'.op = "loadComplete" /\ dataState' # dataState) => live = {}
       /\ lastOp'.op = "visit" => callData[lastOp'.sess] = dataState]_vars

\* C26: no operation of the sequencer (start of a session, column visit,
\* stop, toggle, change of scale, visual update) writes a cell of a grid: the
\* grid objects are the same after it, and their content is what was loaded.
C26_GridUntouched ==
    [][lastOp'.op \in {"play", "resume", "visit", "tick", "stop", "toggle",
                       "changeScale", "draw", "expire"}
       => /\ grids' = grids
          /\ \A id \in DOMAIN grids : Grid(id)' = LoadedGrid(id)]_vars

\* a session has gone round its grid once, after a change of scale and a
\* stop of an earlier session, and the grid is as loaded
C26_Witness ==
    /\ lastOp.op = "visit"
    /\ pos > NumWeeks
    /\ scaleType = "dorian"
    /\ lastOp.sess = 2
    /\ Grid("mixed") = MixedGrid

\* C27: every grid the data layer produces (normalized GitHub or GitLab data,
\* the empty grid, the mock grid) has exactly 52 weeks of exactly 7 days;
\* every cell of a mock or GitLab-derived grid has a level in 0..4 and a
\* count >= 0.
C27_GridShape ==
    (probe.fn \in {"generateEmptyGrid", "normalizeGitHubData",
                   "normalizeGitLabData", "generateMockData"}
     /\ probe.output # Null)
    => LET grid == probe.output[1]
       IN /\ Len(grid.weeks) = 52
          /\ \A k \in 1..Len(grid.weeks) : Len(grid.weeks[k].days) = 7
          /\ probe.fn \in {"normalizeGitLabData", "generateMockData"}
             => \A k \in 1..Len(grid.weeks) : \A d \in 1..Len(grid.weeks[k].days) :
                    /\ grid.weeks[k].days[d].level \in 0..4
                    /\ grid.weeks[k].days[d].count >= 0

\* a GitLab calendar with the largest count on the first day of the window, a
\* count of three quarters of it on the first day of the current week, and an
\* entry after the window: levels 4 and 3 at the two ends of the grid
C27_Witness ==
    /\ probe.fn = "normalizeGitLabData"
    /\ probe.output # Null
    /\ DOMAIN probe.input.entries = ApiDates
    /\ probe.output[1].weeks[1].days[1] = [level |-> 4, count |-> 4]
    /\ probe.output[1].weeks[52].days[1] = [level |-> 3, count |-> 3]

\* C28: fetchContributions always yields a grid of 52 weeks of 7 days, never
\* a null grid: also without an identity, when the identity is not found or
\* the request fails, and when the identity has no activity.
C28_FetchAlwaysYieldsGrid ==
    probe.fn = "fetchContributions"
    => /\ probe.output.data # Null
       /\ Len(probe.output.data[1].weeks) = 52
       /\ \A k \in 1..52 : Len(probe.output.data[1].weeks[k].days) = 7

\* C29: for every identity string, also the empty one and one whose hash has
\* overflowed the 32-bit shift or is negative, abs(hash) mod 4 is in 0..3 and
\* the selector returns the palette entry at that index, a defined voice;
\* the voice is a function of the string alone.
C29_TimbreTotal ==
    probe.fn = "getSignatureOscillator"
    => LET hash == hashOf(probe.input, Len(probe.input))
           value == (hash[1] * Half) + hash[2]
           abs == IF value < 0 THEN -value ELSE value
       IN /\ hash[1] \in (1 - (2^15))..((2^15) - 1) => (abs % 4) \in 0..3
          /\ hash[1] \in (1 - (2^15))..((2^15) - 1) => probe.output = SOOTHING_TYPES[(abs % 4) + 1]
          /\ probe.output \in {SOOTHING_TYPES[i] : i \in 1..4}
          /\ probe.input = <<>> => probe.output = "fmsine"
          /\ probe.output = getSignatureOscillator(probe.input)

\* "azazaza": the shift has overflowed and the hash is -520386602, the voice
\* is the entry at index 2
C29_Witness ==
    /\ probe.fn = "getSignatureOscillator"
    /\ probe.input = <<97, 122, 97, 122, 97, 122, 97>>
    /\ hashOf(probe.input, 7)[1] < 0
    /\ probe.output = "fmtriangle"

\* C30: whenever the audio engine is initialised for an identity, the
\* oscillator of the lead synth is the voice the timbre selector derives from
\* that identity.
C30_LeadVoiceIsSignature ==
    probe.fn = "initLeadSynth"
    => probe.output.oscillator = getSignatureOscillator(probe.input)

\* C31: with the automatic mood on and no change of scale, the visit of a
\* column i with i mod 4 = 0 triggers the chord with the scale the visit was
\* entered with, which for i >= 4 is the mood of block [i-4, i), and triggers
\* the notes of column i with the mood of block [i, i+4).
C31_ChordBeforeMood ==
    [][(lastOp'.op = "visit" /\ out'.col % 4 = 0) =>
        LET data == Grid(callData[out'.session])
            moodOf(i) == getScaleForActivity(getBlockActivity(data, i)).scale
        IN /\ out'.chord.on
           /\ out'.chord.scale = scaleTypeRef
           /\ out'.col >= 4 => out'.chord.scale = moodOf(out'.col - 4)
           /\ out'.notes # {} => out'.noteScale = moodOf(out'.col)
           /\ scaleTypeRef' = moodOf(out'.col)]_vars

\* the visit of column 8: the chord in dorian, the mood of block [4, 8), and
\* the note in pentatonic, the mood of the block of column 8
C31_Witness ==
    /\ lastOp.op = "visit"
    /\ out.col = 8
    /\ out.chord.on
    /\ out.chord.scale = "dorian"
    /\ out.notes # {}
    /\ out.noteScale = "pentatonic"

C33_NotePitchAndVelocity ==
    lastOp.op = "visit" =>
        LET week == Grid(callData[out.session]).weeks[out.col + 1]
        IN /\ {n.day : n \in out.played} = out.notes
           /\ Len(VELOCITIES) = 5
           /\ \A n \in out.played :
                LET level == week.days[n.day + 1].level
                IN /\ level \in 1..4
                   /\ n.noteIndex = (n.day + level) % 7
                   /\ n.noteIndex \in 0..6
                   /\ n.note = SCALES[scaleTypeRef][n.noteIndex + 1]
                   /\ n.vel = VELOCITIES[level + 1]
                   /\ n.vel # VELOCITIES[1]

\* the visit of column 1: the cell of day 2 and level 4 sounds B4, index 6 of
\* the lydian table, with velocity 0.8
C33_Witness ==
    /\ lastOp.op = "visit"
    /\ out.col = 1
    /\ scaleTypeRef = "lydian"
    /\ out.played = {[day |-> 2, noteIndex |-> 6, note |-> "B4", vel |-> 8]}

\* C34: for every root index r in 0..6 and every scale, the chord is one
\* trigger of exactly the three entries of the scale's table of chord roots
\* at the indices r mod 7, (r+2) mod 7 and (r+4) mod 7, which are pairwise
\* distinct and within 0..6.
C34_ChordTriad ==
    probe.fn = "playChord" =>
        LET roots == CHORD_ROOTS[probe.input[1]]
            r == probe.input[2]
            indices == <<r % 7, (r + 2) % 7, (r + 4) % 7>>
        IN /\ Len(probe.output) = 1
           /\ Len(probe.output[1].notes) = 3
           /\ \A k \in 1..3 :
                /\ indices[k] \in 0..6
                /\ probe.output[1].notes[k] = roots[indices[k] + 1]
           /\ Cardinality({indices[k] : k \in 1..3}) = 3
           /\ Cardinality({probe.output[1].notes[k] : k \in 1..3}) = 3

\* the chord on root 5 in dorian: the indices 5, 0 and 2 of the table
C34_Witness ==
    /\ probe.fn = "playChord"
    /\ probe.input = <<"dorian", 5>>
    /\ probe.output[1].notes = <<"A3", "C3", "Eb3">>

\* C35: in the density selector a week whose level sum exceeds the threshold
\* sounds between 1 and 3 distinct active days, and a week whose level sum
\* does not exceed it sounds exactly the set of its active days.
C35_DensityCutoff ==
    probe.fn = "selectedNotesByDensity" =>
        LET week == ProbeWeek(probe.input[1])
            active == {d \in 0..6 : week.days[d + 1].level > 0}
            sum == SumSeq([d \in 1..7 |-> week.days[d].level])
        IN IF sum > DensityThreshold
           THEN /\ probe.output \subseteq active
                /\ Cardinality(probe.output) \in 1..3
           ELSE probe.output = active

\* a week of level sum 11 sounding two of its five active days
C35_Witness ==
    /\ probe.fn = "selectedNotesByDensity"
    /\ probe.input[1] = 0..4
    /\ weekDensity(ProbeWeek(probe.input[1])) = 11
    /\ probe.output = {1, 4}

\* C36: in a grid normalised from a GitLab calendar whose largest count is M
\* (at least 1), a day of count 0 has level 0 and a day of count c > 0 has
\* level 4 if c/M > 3/4, else 3 if c/M > 1/2, else 2 if c/M > 1/4, else 1;
\* the level is 0 exactly when the count is 0, a day with a larger count never
\* has a smaller level, and a day holding the positive maximum has level 4.
C36_GitLabQuantisation ==
    (probe.fn = "normalizeGitLabData" /\ probe.output # Null) =>
        LET entries == probe.input.entries
            counts == {entries[date] : date \in DOMAIN entries}
            M == CHOOSE m \in counts \cup {1} : \A c \in counts \cup {1} : c <= m
            cells == {probe.output[1].weeks[k].days[d] :
                        k \in 1..WeeksPerYear, d \in 1..7}
        IN /\ \A cell \in cells :
                /\ cell.count = 0 => cell.level = 0
                /\ cell.count > 0 =>
                    cell.level = IF 100 * cell.count > 75 * M THEN 4
                                 ELSE IF 100 * cell.count > 50 * M THEN 3
                                 ELSE IF 100 * cell.count > 25 * M THEN 2
                                 ELSE 1
                /\ cell.level = 0 <=> cell.count = 0
                /\ (cell.count > 0 /\ cell.count = M) => cell.level = 4
           /\ \A a \in cells, b \in cells : a.count <= b.count => a.level <= b.level
           /\ \A k \in 1..WeeksPerYear, d \in 1..7 :
                LET date == dateOf(WeeksPerYear - k, d - 1)
                IN date \in DOMAIN entries =>
                    probe.output[1].weeks[k].days[d].count = entries[date]

\* a calendar of largest count 4 with days of count 3 and 4 in the window:
\* the ratio 3/4 stays at level 3
C36_Witness ==
    /\ probe.fn = "normalizeGitLabData"
    /\ probe.output # Null
    /\ probe.output[1].weeks[WeeksPerYear].days[1] = [level |-> 3, count |-> 3]
    /\ probe.output[1].weeks[1].days[1] = [level |-> 4, count |-> 4]

\* C37: once the export handler has ended a recording (Record button, R
\* key or Esc while recording), the step that follows, whatever it is, the
\* continuation of a play() the recording launched included, leaves
\* isRecording and isPlaying false unless it starts a new recording, and
\* leaves no sequence scheduled on the transport.
C37_RecordingEndEndsPlayback ==
    [][(\/ lastOp.op = "recordStop"
        \/ (lastOp.op = "escape" /\ lastOp.res = "recording")) =>
            /\ ~isPlaying'
            /\ live' = {}
            /\ isRecording' => lastOp'.op = "recordResume"]_vars

\* C38: a column visit triggers one drum voice or none; a hi-hat is triggered
\* on beats 1 and 3 only, and on beat 2 of a block whose sum is above 15 (and
\* so above 5) the snare is triggered, on beat 0 the kick.
C38_OneDrumVoice ==
    lastOp.op = "visit" =>
        LET beat == out.col % 4
            sum == getBlockActivity(Grid(callData[out.session]), out.col)
        IN /\ out.drum \in {"none", "kick", "snare", "hihat0.2", "hihat0.3"}
           /\ out.drum \in {"hihat0.2", "hihat0.3"} => beat \in {1, 3}
           /\ (beat = 2 /\ sum > 15) => out.drum = "snare"
           /\ beat = 0 => out.drum = "kick"
           /\ sum > 15 => sum > 5

\* beat 2 of the block of sum 36: the snare
C38_Witness ==
    /\ lastOp.op = "visit"
    /\ out.col = 6
    /\ getBlockActivity(Grid(callData[out.session]), out.col) = 36
    /\ out.drum = "snare"

\* C39: no step other than a call of changeScale changes the auto-scale flag
\* or its ref, and while the scale is pinned no such step changes the scale
\* or its ref: a pinned scale stays pinned across calls of stop() and
\* play(); changeScale can be called while no session is playing.
C39_ScaleModeSurvivesSessions ==
    /\ [](~isPlaying => ENABLED ChangeScale("dorian"))
    /\ [][lastOp'.op # "changeScale" =>
            /\ UNCHANGED <<autoScale, autoScaleRef>>
            /\ ~autoScaleRef => UNCHANGED <<scaleType, scaleTypeRef>>]_vars

\* the second session, started after a stop(), visits a block boundary of a
\* block whose mood is not dorian with the scale still pinned to dorian
C39_Witness ==
    /\ lastOp.op = "visit"
    /\ out.session = 2
    /\ stopMark = 2
    /\ out.col % 4 = 0
    /\ getScaleForActivity(getBlockActivity(Grid(callData[2]), out.col)).scale # "dorian"
    /\ ~autoScale
    /\ ~autoScaleRef
    /\ scaleType = "dorian"
    /\ scaleTypeRef = "dorian"

\* C40: a firing of the sequence callback, that of the last column included,
\* and the visual callback it schedules leave isPlaying unchanged and never
\* put the active column to -1; isPlaying goes from true to false only in a
\* step that calls stop().
C40_SessionNeverEndsByItself ==
    [][/\ lastOp'.op \in {"visit", "tick", "draw", "expire"} =>
            /\ isPlaying' = isPlaying
            /\ activeCol' = -1 => activeCol = -1
       /\ (isPlaying /\ ~isPlaying') => lastOp'.op \in {"stop", "toggle"}]_vars

\* the session has visited its last column and visits column 0 again, still
\* playing with a column shown
C40_Witness ==
    /\ lastOp.op = "visit"
    /\ pos > Len(Grid(callData[out.session]).weeks)
    /\ out.col = 0
    /\ isPlaying
    /\ out.session \in live
    /\ activeCol >= 0

====
